---- MODULE Spec2Model ----
(***************************************************************************)
(* A model of sqlalchemy_query_helper/query_helper.py: the translation of  *)
(* Mongo-style filter clauses, sort directives and pagination directives   *)
(* into a composed SQLAlchemy query, and the count of the matching rows.   *)
(*                                                                         *)
(* Every function of the module is a pure transformation, modelled as an   *)
(* operator that yields an outcome: Return(v) or Raise(exception).  The    *)
(* state machine records the last call made to the library, its arguments  *)
(* and its outcome; the library keeps no state between calls.              *)
(***************************************************************************)
EXTENDS Integers, Sequences, FiniteSets, TLC

(***************************************************************************)
(* Bounds of the model.                                                    *)
(***************************************************************************)
\* the fixture table holds TableSize rows
TableSize == 10
\* the age column holds 1..MaxAge, or NULL
MaxAge == 3
\* a list of filter clauses names at most MaxPairs (field, operator) pairs
MaxPairs == 2
\* a sort directive names at most MaxSortPairs (field, direction) pairs
MaxSortPairs == 2
\* offsets and limits range over -1..MaxBound, or are missing
MaxBound == 3
\* a date-tagged sequence holds at most MaxDates strings
MaxDates == 2

(***************************************************************************)
(* Python objects.  Every object is a record tagged with its type, so that *)
(* objects of different types are comparable.                              *)
(***************************************************************************)
None == [t |-> "NoneType"]
PyInt(n) == [t |-> "int", n |-> n]
PyStr(s) == [t |-> "str", s |-> s]
PyDate(ymd) == [t |-> "datetime", ymd |-> ymd]
PyList(items) == [t |-> "list", items |-> items]
\* a mapping with one key
PyDict(key, val) == [t |-> "dict", key |-> key, val |-> val]
\* a sqlalchemy Query: the generative calls made on session.query(model_cls)
Query(calls) == [t |-> "Query", calls |-> calls]

\* the outcome of a call
Return(v) == [kind |-> "return", v |-> v]
Raise(exc) == [kind |-> "raise", exc |-> exc]
Raised(o) == o.kind = "raise"
NoCall == [kind |-> "none"]

SUPPORTED_QUERY_OPERATORS == {"$ne", "$eq", "$in", "$nin", "$gt", "$gte", "$lt", "$lte"}

Fields == {"age", "born"}

(***************************************************************************)
(* dateutil.parser.parse, on the strings the model uses: two spellings of  *)
(* the same day, another day, and a string that is no date.                *)
(***************************************************************************)
DateStrings == {"2023-01-01", "Jan 1 2023", "2023-02-01", "not a date"}

parse_date(s) ==
    CASE s = "2023-01-01" -> Return(PyDate(20230101))
      [] s = "Jan 1 2023" -> Return(PyDate(20230101))
      [] s = "2023-02-01" -> Return(PyDate(20230201))
      [] OTHER -> Raise("ValueError")

\* [parse_date(date_val) for date_val in items]: the first failure propagates
RECURSIVE ParseAll(_, _, _)
ParseAll(items, i, acc) ==
    IF i > Len(items) THEN Return(PyList(acc))
    ELSE LET d == parse_date(items[i].s)
         IN  IF Raised(d) THEN d ELSE ParseAll(items, i + 1, Append(acc, d.v))

_convert_if_date(value) ==
    IF value.t = "dict"
    THEN IF value.key # "$date"
         THEN Raise("KeyError")
         ELSE IF value.val.t = "list"
              THEN ParseAll(value.val.items, 1, <<>>)
              ELSE parse_date(value.val.s)
    ELSE Return(value)

(***************************************************************************)
(* The fixture table behind model_cls: rows 1..TableSize with a nullable   *)
(* integer column age and a nullable date column born.                     *)
(***************************************************************************)
Days == <<None, PyDate(20221231), PyDate(20230101), PyDate(20230201)>>

Table ==
    [i \in 1..TableSize |->
        [age |-> IF i % (MaxAge + 1) = 0 THEN None ELSE PyInt(i % (MaxAge + 1)),
         born |-> Days[((i \div 2) % 4) + 1]]]

\* getattr(model_cls, field)
Column(field) == [t |-> "Column", field |-> field]
\* a column expression built by one column operator
Clause(op, field, val) == [t |-> "Clause", op |-> op, field |-> field, value |-> val]

Key(v) == IF v.t = "int" THEN v.n ELSE v.ymd

\* whether the row satisfies the clause, as the database evaluates it: a
\* comparison with NULL is unknown, and the row is not selected
Matches(row, c) ==
    LET cell == row[c.field]
    IN  CASE c.op = "is_" -> cell = c.value
          [] c.op = "__eq__" ->
                IF c.value = None THEN cell = None
                ELSE cell # None /\ cell = c.value
          [] c.op = "__ne__" ->
                IF c.value = None THEN cell # None
                ELSE cell # None /\ cell # c.value
          [] c.op = "__lt__" -> cell # None /\ Key(cell) < Key(c.value)
          [] c.op = "__gt__" -> cell # None /\ Key(cell) > Key(c.value)
          [] c.op = "in_" ->
                cell # None /\ \E i \in 1..Len(c.value.items) : c.value.items[i] = cell
          [] c.op = "notin_" ->
                cell # None /\ \A i \in 1..Len(c.value.items) : c.value.items[i] # cell
          [] OTHER -> FALSE

IsFilter(call) == call.m = "filter"
IsOrderBy(call) == call.m = "order_by"
Filters(q) == SelectSeq(q.calls, IsFilter)
OrderBys(q) == SelectSeq(q.calls, IsOrderBy)

RECURSIVE LastArg(_, _, _)
\* the argument of the last call of method m, or dflt if there is none
LastArg(calls, m, dflt) ==
    IF calls = <<>> THEN dflt
    ELSE IF calls[Len(calls)].m = m THEN calls[Len(calls)].arg
         ELSE LastArg(SubSeq(calls, 1, Len(calls) - 1), m, dflt)

Unset == PyInt(-1)
OffsetOf(q) == LastArg(q.calls, "offset", Unset)
LimitOf(q) == LastArg(q.calls, "limit", Unset)

RECURSIVE Matching(_, _)
\* the positions from i on of the rows that satisfy every filter of q
Matching(q, i) ==
    IF i > TableSize THEN <<>>
    ELSE LET rest == Matching(q, i + 1)
             f == Filters(q)
         IN  IF \A k \in 1..Len(f) : Matches(Table[i], f[k].arg)
             THEN <<i>> \o rest ELSE rest

Min(a, b) == IF a < b THEN a ELSE b

\* the positions of the rows an unordered query selects, in table order:
\* WHERE, then OFFSET, then LIMIT
Rows(q) ==
    LET m == Matching(q, 1)
        o == IF OffsetOf(q) = Unset THEN 0 ELSE OffsetOf(q).n
        last == IF LimitOf(q) = Unset THEN Len(m) ELSE Min(Len(m), o + LimitOf(q).n)
    IN  SubSeq(m, o + 1, last)

\* Python's left | right for the operands the module passes: the left operand
\* is a plain Python value, which has no | with a column, and the column has
\* no reflected |
BitOr(left, right) ==
    IF left.t \in {"Column", "Clause"}
    THEN Return([t |-> "Clause", op |-> "or_", field |-> right.field, value |-> left])
    ELSE Raise("TypeError")

\* col < v | col == v parses as the chain col < (v | col) == v; its first
\* link is a clause whose truth value Python cannot take
Inclusive(cmp, field, operator_value) ==
    LET rhs == BitOr(operator_value, Column(field))
    IN  IF Raised(rhs) THEN rhs ELSE Raise("TypeError")

\* FilterArg without the null test: $eq is always equality
FilterArgNoNullTest(field, operator, operator_value) ==
    CASE operator = "$eq" -> Return(Clause("__eq__", field, operator_value))
      [] operator = "$ne" -> Return(Clause("__ne__", field, operator_value))
      [] operator = "$lt" -> Return(Clause("__lt__", field, operator_value))
      [] operator = "$lte" -> Inclusive("__lt__", field, operator_value)
      [] operator = "$gt" -> Return(Clause("__gt__", field, operator_value))
      [] operator = "$gte" -> Inclusive("__gt__", field, operator_value)
      [] operator = "$nin" -> Return(Clause("notin_", field, operator_value))
      [] operator = "$in" -> Return(Clause("in_", field, operator_value))

\* the argument of record_set.filter for a supported operator
FilterArg(field, operator, operator_value) ==
    CASE operator = "$eq" ->
            IF operator_value = None
            THEN Return(Clause("is_", field, None))
            ELSE Return(Clause("__eq__", field, operator_value))
      [] operator = "$ne" -> Return(Clause("__ne__", field, operator_value))
      [] operator = "$lt" -> Return(Clause("__lt__", field, operator_value))
      [] operator = "$lte" -> Inclusive("__lt__", field, operator_value)
      [] operator = "$gt" -> Return(Clause("__gt__", field, operator_value))
      [] operator = "$gte" -> Inclusive("__gt__", field, operator_value)
      [] operator = "$nin" -> Return(Clause("notin_", field, operator_value))
      [] operator = "$in" -> Return(Clause("in_", field, operator_value))

\* record_set.m(arg): a new query; None has no such attribute
Generative(record_set, m, arg) ==
    IF record_set.t # "Query" THEN Raise("AttributeError")
    ELSE Return(Query(Append(record_set.calls, [m |-> m, arg |-> arg])))

\* the branches of the if/elif chain of _apply_query_param
Branches == {"$eq", "$ne", "$lt", "$lte", "$gt", "$gte", "$nin", "$in"}

RECURSIVE ApplyFrom(_, _, _)
\* ApplyFrom returning after the i-th pair whatever its operator
ApplyFirstPairOnly(record_set, params, i) ==
    IF i > Len(params) THEN Return(None)
    ELSE LET p == params[i]
             operator_value == _convert_if_date(p.value)
         IN  IF Raised(operator_value) THEN operator_value
             ELSE IF p.operator \in Branches
                  THEN LET arg == FilterArg(p.field, p.operator, operator_value.v)
                       IN  IF Raised(arg) THEN arg
                           ELSE Generative(record_set, "filter", arg.v)
                  ELSE Return(None)

\* the loops of _apply_query_param from the i-th (field, operator) pair on, the
\* pairs of the clause being listed in iteration order
ApplyFrom(record_set, params, i) ==
    IF i > Len(params) THEN Return(None)
    ELSE LET p == params[i]
             operator_value == _convert_if_date(p.value)
         IN  IF Raised(operator_value) THEN operator_value
             ELSE IF p.operator \in Branches
                  THEN IF record_set.t # "Query" THEN Raise("AttributeError")
                       ELSE LET arg == FilterArg(p.field, p.operator, operator_value.v)
                            IN  IF Raised(arg) THEN arg
                                ELSE Generative(record_set, "filter", arg.v)
                  ELSE ApplyFrom(record_set, params, i + 1)

_apply_query_param(record_set, params) == ApplyFrom(record_set, params, 1)

\* str.upper on the letters the direction tokens use
UpperChar(c) ==
    CASE c = "a" -> "A" [] c = "s" -> "S" [] c = "c" -> "C" [] c = "d" -> "D"
      [] c = "e" -> "E" [] c = "u" -> "U" [] c = "p" -> "P" [] OTHER -> c

Upper(ordering) == [i \in 1..Len(ordering) |-> UpperChar(ordering[i])]

ASC == <<"A", "S", "C">>
DESC == <<"D", "E", "S", "C">>

RECURSIVE Flatten(_)
\* the (field, ordering) pairs of the groups, in the order the loops visit them
Flatten(groups) ==
    IF groups = <<>> THEN <<>> ELSE Head(groups) \o Flatten(Tail(groups))

RECURSIVE SortFrom(_, _, _)
\* the loops of _query_sort from the i-th pair on: the query order_by returns
\* is dropped, record_set is never rebound
SortFrom(record_set, pairs, i) ==
    IF i > Len(pairs) THEN Return(record_set)
    ELSE LET u == Upper(pairs[i].ordering)
         IN  IF u # ASC /\ u # DESC THEN Raise("NotImplementedError")
             ELSE LET order_func == IF u = ASC THEN "asc" ELSE "desc"
                      ordered == Generative(record_set, "order_by",
                                            [fn |-> order_func, field |-> pairs[i].field])
                  IN  IF Raised(ordered) THEN ordered
                      ELSE SortFrom(record_set, pairs, i + 1)

_query_sort(record_set, sort_params) == SortFrom(record_set, Flatten(sort_params), 1)

\* a pagination directive: a missing key is the empty sequence, a present key
\* the sequence of its value; given is FALSE when the argument is None
NoPagination == [given |-> FALSE, sort |-> <<>>, offset |-> <<>>, limit |-> <<>>]

EmptyPagination == [given |-> TRUE, sort |-> <<>>, offset |-> <<>>, limit |-> <<>>]

\* Positive with >= for >
PositiveOrZero(opt) == opt # <<>> /\ opt[1] >= 0

\* pagination_args.get(key, 0) > 0
Positive(opt) == opt # <<>> /\ opt[1] > 0

query_limit(record_set, pagination_args) ==
    LET afterOffset ==
            IF Positive(pagination_args.offset)
            THEN Generative(record_set, "offset", PyInt(pagination_args.offset[1]))
            ELSE Return(record_set)
    IN  IF Raised(afterOffset) THEN afterOffset
        ELSE IF Positive(pagination_args.limit)
             THEN Generative(afterOffset.v, "limit", PyInt(pagination_args.limit[1]))
             ELSE afterOffset

RECURSIVE FilterFrom(_, _, _)
\* for param in params: record_set = _apply_query_param(model_cls, record_set, param)
FilterFrom(record_set, params, i) ==
    IF i > Len(params) THEN Return(record_set)
    ELSE LET applied == _apply_query_param(record_set, params[i])
         IN  IF Raised(applied) THEN applied
             ELSE FilterFrom(applied.v, params, i + 1)

query(params, pagination_args) ==
    LET filtered == FilterFrom(Query(<<>>), params, 1)
    IN  IF Raised(filtered) THEN filtered
        ELSE LET sorted == _query_sort(filtered.v, pagination_args.sort)
             IN  IF Raised(sorted) THEN sorted
                 ELSE query_limit(sorted.v, pagination_args)

\* bool(result): None is false, a Query is true
Truthy(v) == v.t # "NoneType"

count(params) ==
    LET res == query(params, EmptyPagination)
    IN  IF Raised(res) THEN res
        ELSE Return(PyDict("count",
                 PyInt(IF Truthy(res.v) THEN Len(Rows(res.v)) ELSE 0)))

(***************************************************************************)
(* The arguments the calls are made with.                                  *)
(***************************************************************************)
RECURSIVE SplitFrom(_, _, _, _)
\* the flat sequence f cut into groups after the positions in cuts
SplitFrom(f, cuts, i, acc) ==
    IF i > Len(f) THEN acc
    ELSE IF i = 1 \/ (i - 1) \in cuts
         THEN SplitFrom(f, cuts, i + 1, Append(acc, <<f[i]>>))
         ELSE SplitFrom(f, cuts, i + 1, [acc EXCEPT ![Len(acc)] = Append(@, f[i])])

Split(f, cuts) == SplitFrom(f, cuts, 1, <<>>)

ListOperators == {"$in", "$nin"}
Operators == SUPPORTED_QUERY_OPERATORS \cup {"$regex"}

\* the values a filter compares a field with: values of the column's type,
\* dates date-tagged, one of them malformed; null with $eq only
FilterValues(field, operator) ==
    IF field = "age"
    THEN IF operator \in ListOperators
         THEN {PyList(<<PyInt(1), PyInt(MaxAge)>>)}
         ELSE {PyInt(MaxAge - 1)} \cup (IF operator = "$eq" THEN {None} ELSE {})
    ELSE IF operator \in ListOperators
         THEN {PyDict("$date", PyList(<<PyStr("Jan 1 2023"), PyStr("2023-02-01")>>))}
         ELSE {PyDict("$date", PyStr("2023-01-01")), PyDict("$date", PyStr("not a date"))}
              \cup (IF operator = "$eq" THEN {None} ELSE {})

FilterPairs ==
    UNION {{[field |-> f, operator |-> o, value |-> v] : v \in FilterValues(f, o)} :
           f \in Fields, o \in Operators}

\* a clause lists its (field, operator) pairs in iteration order: a mapping
\* holds a field once, and an operator once under a field
IsClause(c) ==
    \A i, j \in 1..Len(c) :
        /\ (i # j => ~(c[i].field = c[j].field /\ c[i].operator = c[j].operator))
        /\ (i < j /\ c[i].field = c[j].field =>
                \A k \in i..j : c[k].field = c[i].field)

IsParams(p) == \A i \in 1..Len(p) : IsClause(p[i])

Orderings ==
    {<<"A", "S", "C">>, <<"a", "s", "c">>, <<"D", "E", "S", "C">>,
     <<"D", "e", "s", "c">>, <<"U", "P">>}

SortPairs == {[field |-> f, ordering |-> o] : f \in Fields, o \in Orderings}

Bounds == {<<>>} \cup {<<n>> : n \in (-1)..MaxBound}

LimitDirectives ==
    {NoPagination} \cup
    {[given |-> TRUE, sort |-> <<>>, offset |-> o, limit |-> l] : o, l \in Bounds}

\* the queries the helpers are called on directly
RecordSets ==
    {Query(<<>>),
     Query(<<[m |-> "filter", arg |-> Clause("__gt__", "age", PyInt(1))]>>)}

RawValues ==
    {None} \cup {PyInt(k) : k \in 1..MaxAge} \cup {PyStr(s) : s \in DateStrings}
    \cup {PyList(<<>>), PyList(<<PyInt(1), PyInt(MaxAge)>>)}
    \cup {PyDict("$date", PyStr(s)) : s \in DateStrings}
    \cup {PyDict("$date", PyList([i \in 1..n |-> PyStr(q[i])])) :
            q \in [1..MaxDates -> DateStrings], n \in 0..MaxDates}
    \cup {PyDict("$regex", PyStr("2023-01-01")), PyDict("count", PyInt(1))}

(***************************************************************************)
(* The state: the last call, its arguments and its outcome.                *)
(***************************************************************************)
VARIABLES fn, params, pagination_args, record_set, value, result

vars == <<fn, params, pagination_args, record_set, value, result>>

Init ==
    /\ fn = "none"
    /\ params = <<>>
    /\ pagination_args = NoPagination
    /\ record_set = None
    /\ value = None
    /\ result = NoCall

ConvertIfDate ==
    /\ fn = "none"
    /\ \E v \in RawValues :
        /\ fn' = "_convert_if_date"
        /\ value' = v
        /\ result' = _convert_if_date(v)
        /\ params' = <<>>
        /\ pagination_args' = NoPagination
        /\ record_set' = None

\* _apply_query_param on a clause of at most MaxPairs pairs, the empty
\* clause included
ApplyQueryParam ==
    /\ fn = "none"
    /\ \E rs \in RecordSets, n \in 0..MaxPairs :
       \E c \in [1..n -> FilterPairs] :
        /\ IsClause(c)
        /\ fn' = "_apply_query_param"
        /\ record_set' = rs
        /\ params' = <<c>>
        /\ result' = _apply_query_param(rs, c)
        /\ pagination_args' = NoPagination
        /\ value' = None

QuerySort ==
    /\ fn = "none"
    /\ \E rs \in RecordSets, n \in 0..MaxSortPairs :
       \E f \in [1..n -> SortPairs], cuts \in SUBSET (1..(n - 1)) :
        /\ fn' = "_query_sort"
        /\ record_set' = rs
        /\ pagination_args' =
               [given |-> TRUE, sort |-> Split(f, cuts), offset |-> <<>>, limit |-> <<>>]
        /\ result' = _query_sort(rs, Split(f, cuts))
        /\ params' = <<>>
        /\ value' = None

QueryLimit ==
    /\ fn = "none"
    /\ \E rs \in RecordSets, pg \in LimitDirectives :
        /\ fn' = "query_limit"
        /\ record_set' = rs
        /\ pagination_args' = pg
        /\ result' = query_limit(rs, pg)
        /\ params' = <<>>
        /\ value' = None

\* query with at most MaxPairs filter pairs and no pagination
QueryFiltered ==
    /\ fn = "none"
    /\ \E n \in 0..MaxPairs, pg \in {NoPagination, EmptyPagination} :
       \E f \in [1..n -> FilterPairs], cuts \in SUBSET (1..(n - 1)) :
        /\ IsParams(Split(f, cuts))
        /\ fn' = "query"
        /\ params' = Split(f, cuts)
        /\ pagination_args' = pg
        /\ result' = query(Split(f, cuts), pg)
        /\ record_set' = None
        /\ value' = None

\* query with at most one filter pair and a pagination directive of at most
\* MaxSortPairs sort pairs
QueryPaged ==
    /\ fn = "none"
    /\ \E k \in 0..1, n \in 0..MaxSortPairs :
       \E c \in [1..k -> FilterPairs],
          f \in [1..n -> SortPairs], cuts \in SUBSET (1..(n - 1)),
          o \in {<<>>, <<0>>, <<MaxBound - 1>>}, l \in {<<>>, <<0>>, <<MaxBound>>} :
        /\ fn' = "query"
        /\ params' = Split(c, {})
        /\ pagination_args' =
               [given |-> TRUE, sort |-> Split(f, cuts), offset |-> o, limit |-> l]
        /\ result' = query(params', pagination_args')
        /\ record_set' = None
        /\ value' = None

Count ==
    /\ fn = "none"
    /\ \E n \in 0..MaxPairs :
       \E f \in [1..n -> FilterPairs], cuts \in SUBSET (1..(n - 1)) :
        /\ IsParams(Split(f, cuts))
        /\ fn' = "count"
        /\ params' = Split(f, cuts)
        /\ result' = count(Split(f, cuts))
        /\ pagination_args' = NoPagination
        /\ record_set' = None
        /\ value' = None

\* the caller drops the outcome: nothing of a call outlives it
Discard ==
    /\ fn # "none"
    /\ fn' = "none"
    /\ params' = <<>>
    /\ pagination_args' = NoPagination
    /\ record_set' = None
    /\ value' = None
    /\ result' = NoCall

Next ==
    \/ ConvertIfDate
    \/ ApplyQueryParam
    \/ QuerySort
    \/ QueryLimit
    \/ QueryFiltered
    \/ QueryPaged
    \/ Count
    \/ Discard

Spec == Init /\ [][Next]_vars

(***************************************************************************)
(* What the claims speak of, read off the arguments and the outcome of the *)
(* last call.                                                              *)
(***************************************************************************)
\* the (field, operator) pairs of the filter clauses, in order
Pairs == Flatten(params)
\* the (field, direction) pairs of the sort directive, in order
Directions == Flatten(pagination_args.sort)

Normalises(prs) == \A i \in 1..Len(prs) : ~Raised(_convert_if_date(prs[i].value))
Normalised(p) == _convert_if_date(p.value).v

ReturnsQuery == result.kind = "return" /\ result.v.t = "Query"

\* the calls the outcome's query holds beyond those of the query passed in
Added == SubSeq(result.v.calls, Len(record_set.calls) + 1, Len(result.v.calls))
KeepsCalls ==
    /\ Len(result.v.calls) >= Len(record_set.calls)
    /\ SubSeq(result.v.calls, 1, Len(record_set.calls)) = record_set.calls

\* the column operators a predicate for the operator token may be built with
ClauseOps(operator) ==
    CASE operator = "$eq" -> {"is_", "__eq__"}
      [] operator = "$ne" -> {"__ne__"}
      [] operator = "$lt" -> {"__lt__"}
      [] operator = "$gt" -> {"__gt__"}
      [] operator \in {"$lte", "$gte"} -> {"or_"}
      [] operator = "$in" -> {"in_"}
      [] operator = "$nin" -> {"notin_"}
      [] OTHER -> {}

\* the clause a is a predicate for the pair p
IsFor(a, p) == a.field = p.field /\ a.op \in ClauseOps(p.operator)

\* the row satisfies the operator's relational meaning
Satisfies(row, p) ==
    LET v == Normalised(p)
    IN  CASE p.operator = "$eq" ->
                Matches(row, Clause(IF v = None THEN "is_" ELSE "__eq__", p.field, v))
          [] p.operator = "$ne" -> Matches(row, Clause("__ne__", p.field, v))
          [] p.operator = "$lt" -> Matches(row, Clause("__lt__", p.field, v))
          [] p.operator = "$gt" -> Matches(row, Clause("__gt__", p.field, v))
          [] p.operator = "$lte" ->
                \/ Matches(row, Clause("__lt__", p.field, v))
                \/ Matches(row, Clause("__eq__", p.field, v))
          [] p.operator = "$gte" ->
                \/ Matches(row, Clause("__gt__", p.field, v))
                \/ Matches(row, Clause("__eq__", p.field, v))
          [] p.operator = "$in" -> Matches(row, Clause("in_", p.field, v))
          [] p.operator = "$nin" -> Matches(row, Clause("notin_", p.field, v))
          [] OTHER -> TRUE

RECURSIVE Keep(_, _, _)
\* the positions of rows, from the i-th on, whose row satisfies the pair p
Keep(rows, i, p) ==
    IF i > Len(rows) THEN <<>>
    ELSE IF Satisfies(Table[rows[i]], p)
         THEN <<rows[i]>> \o Keep(rows, i + 1, p)
         ELSE Keep(rows, i + 1, p)

AscTokens == {<<"A", "S", "C">>, <<"a", "s", "c">>}
DescTokens == {<<"D", "E", "S", "C">>, <<"D", "e", "s", "c">>}
ValidDirection(d) == d.ordering \in AscTokens \cup DescTokens
OrderFunc(d) == IF d.ordering \in AscTokens THEN "asc" ELSE "desc"

\* C1: for filter clauses whose operators are all supported (whose values
\* normalise, the sort directive being valid), query returns an accumulator
\* that carries exactly one predicate per (field, operator) pair, in the
\* order of the pairs.
C1_OnePredicatePerPair ==
    (/\ fn = "query"
     /\ \A i \in 1..Len(Pairs) : Pairs[i].operator \in SUPPORTED_QUERY_OPERATORS
     /\ Normalises(Pairs)
     /\ \A i \in 1..Len(Directions) : ValidDirection(Directions[i]))
    => /\ ReturnsQuery
       /\ Len(Filters(result.v)) = Len(Pairs)
       /\ \A i \in 1..Len(Pairs) : IsFor(Filters(result.v)[i].arg, Pairs[i])

\* C2: the predicate attached for $gte (for $lte) selects exactly the rows
\* whose field is greater (less) than the value or equal to it, each once.
C2_InclusiveIsStrictOrEqual ==
    (/\ fn = "_apply_query_param"
     /\ Len(Pairs) = 1
     /\ Pairs[1].operator \in {"$gte", "$lte"}
     /\ Normalises(Pairs))
    => /\ ReturnsQuery
       /\ Rows(result.v) = Keep(Rows(record_set), 1, Pairs[1])

\* C3: for a sort directive whose direction tokens are all ASC or DESC in any
\* letter case, the accumulator _query_sort returns, and the one query
\* returns, carries one order clause per (field, direction) pair, ascending
\* or descending as the token says, in the order of the pairs.
C3_OrderClausePerPair ==
    (/\ fn \in {"_query_sort", "query"}
     /\ \A i \in 1..Len(Directions) : ValidDirection(Directions[i]))
    => /\ fn = "_query_sort" => ReturnsQuery
       /\ ReturnsQuery =>
            /\ Len(OrderBys(result.v)) = Len(Directions)
            /\ \A i \in 1..Len(Directions) :
                 OrderBys(result.v)[i].arg =
                     [fn |-> OrderFunc(Directions[i]), field |-> Directions[i].field]

\* the sequence s without its i-th element
Without(s, i) == SubSeq(s, 1, i - 1) \o SubSeq(s, i + 1, Len(s))

\* C4: a filter clause whose operators are all unsupported is ignored: query
\* returns what it returns without the clause, and never an absent value.
C4_UnsupportedClauseIgnored ==
    (fn = "query" /\ Normalises(Pairs))
    => \A i \in 1..Len(params) :
         (\A k \in 1..Len(params[i]) :
              params[i][k].operator \notin SUPPORTED_QUERY_OPERATORS)
         => /\ result = query(Without(params, i), pagination_args)
            /\ result # Return(None)

\* C5: count returns {"count": n}, n the number of rows that satisfy every
\* predicate of the filter clauses; it raises no error.
C5_CountIsNumberOfMatches ==
    (fn = "count" /\ Normalises(Pairs))
    => result = Return(PyDict("count", PyInt(Cardinality(
           {r \in 1..TableSize : \A k \in 1..Len(Pairs) : Satisfies(Table[r], Pairs[k])}))))

\* through query: the accumulator query returns holds an offset (a limit)
\* exactly when the directive's offset (limit) is strictly positive, the
\* offset before the limit.
QueryBoundsWhenPositive ==
    (fn = "query" /\ ReturnsQuery) =>
        LET o == pagination_args.offset
            l == pagination_args.limit
            calls == result.v.calls
            At(m) == {i \in 1..Len(calls) : calls[i].m = m}
        IN  /\ At("offset") # {} <=> (o # <<>> /\ o[1] > 0)
            /\ At("limit") # {} <=> (l # <<>> /\ l[1] > 0)
            /\ \A i \in At("offset") : calls[i].arg = PyInt(o[1])
            /\ \A i \in At("limit") : calls[i].arg = PyInt(l[1])
            /\ \A i \in At("offset"), k \in At("limit") : i < k

\* C6: query_limit attaches an offset exactly when the directive's offset is
\* present and strictly positive, a limit exactly when its limit is, the
\* offset before the limit, and nothing else; the query then selects the rows
\* after the first offset ones, limit of them at most; and so through query.
C6_BoundsAttachedWhenPositive ==
    /\ QueryBoundsWhenPositive
    /\ fn = "query_limit" =>
        LET o == pagination_args.offset
            l == pagination_args.limit
            wantO == o # <<>> /\ o[1] > 0
            wantL == l # <<>> /\ l[1] > 0
            before == Rows(record_set)
            skip == IF wantO THEN o[1] ELSE 0
        IN  /\ ReturnsQuery
            /\ KeepsCalls
            /\ Added = (IF wantO THEN <<[m |-> "offset", arg |-> PyInt(o[1])]>> ELSE <<>>)
                       \o (IF wantL THEN <<[m |-> "limit", arg |-> PyInt(l[1])]>> ELSE <<>>)
            /\ Rows(result.v) =
                   SubSeq(before, skip + 1,
                          IF wantL THEN Min(Len(before), skip + l[1]) ELSE Len(before))

\* offset 2 and limit 3 over the whole table select positions 3 to 5
C6_Witness ==
    /\ fn = "query_limit"
    /\ record_set = Query(<<>>)
    /\ pagination_args.offset = <<2>>
    /\ pagination_args.limit = <<3>>
    /\ ReturnsQuery
    /\ Rows(result.v) = <<3, 4, 5>>

\* C7: a direction token that is neither ASC nor DESC in any letter case
\* makes the sort step fail with the unsupported-ordering error, whatever
\* valid pairs precede it, and query returns no accumulator; tokens that are
\* ASC or DESC in some letter case never cause that error.
C7_BadDirectionFails ==
    LET bad == \E i \in 1..Len(Directions) : ~ValidDirection(Directions[i])
    IN  /\ (fn = "_query_sort" /\ bad) => result = Raise("NotImplementedError")
        /\ (fn = "query" /\ bad) => result.kind = "raise"
        /\ (fn = "query" /\ bad /\ ~Raised(FilterFrom(Query(<<>>), params, 1)))
               => result = Raise("NotImplementedError")
        /\ (fn \in {"_query_sort", "query"} /\ ~bad)
               => result # Raise("NotImplementedError")

\* C8: for $eq with a null value the attached predicate is the is-null test
\* on the field and selects exactly the rows whose field is null; for any
\* other value it is equality of the field with the value.
C8_EqNullIsNullTest ==
    (/\ fn = "_apply_query_param"
     /\ Len(Pairs) >= 1
     /\ Pairs[1].operator = "$eq"
     /\ Normalises(<<Pairs[1]>>))
    => LET v == Normalised(Pairs[1])
           f == Pairs[1].field
           Wanted(r) == IF v = None THEN Table[r][f] = None ELSE Table[r][f] = v
       IN  /\ ReturnsQuery
           /\ KeepsCalls
           /\ Len(Added) = 1
           /\ Added[1].m = "filter"
           /\ Added[1].arg.field = f
           /\ Added[1].arg.value = v
           /\ Added[1].arg.op = (IF v = None THEN "is_" ELSE "__eq__")
           /\ Rows(result.v) =
                  SelectSeq(Rows(record_set), Wanted)

\* an $eq clause with a null value, and rows selected by it
C8_Witness ==
    /\ fn = "_apply_query_param"
    /\ Len(Pairs) >= 1
    /\ Pairs[1].operator = "$eq"
    /\ Pairs[1].value = None
    /\ ReturnsQuery
    /\ Added[1].arg.op = "is_"
    /\ Rows(result.v) # <<>>

\* C9: _convert_if_date returns a value that is no date-tagged mapping
\* unchanged, the parsed date for a date-tagged string, the parsed dates in
\* order for a date-tagged sequence, and fails with the parse error on a
\* malformed date string.
C9_NormalizerContract ==
    fn = "_convert_if_date" =>
        IF value.t = "dict" /\ value.key = "$date"
        THEN IF value.val.t = "list"
             THEN LET items == value.val.items
                  IN  IF \A i \in 1..Len(items) : ~Raised(parse_date(items[i].s))
                      THEN result = Return(PyList(
                               [i \in 1..Len(items) |-> parse_date(items[i].s).v]))
                      ELSE result = Raise("ValueError")
             ELSE result = parse_date(value.val.s)
        ELSE result = Return(value)

\* C10: applying one clause returns right after its first (field, operator)
\* pair: an accumulator it returns carries the predicate of that first pair
\* and of no other pair, whether or not the first operator is supported.
C10_ReturnsAfterFirstPair ==
    (fn = "_apply_query_param" /\ Len(Pairs) >= 1 /\ ReturnsQuery)
    => /\ KeepsCalls
       /\ Len(Added) = 1
       /\ IsFor(Added[1].arg, Pairs[1])

\* C10, amended: applying one clause returns right after the first pair whose
\* operator is supported, the pairs before it being skipped: an accumulator
\* it returns carries the predicate of that pair and of no other; it returns
\* one when the values up to that pair normalise and the operator is not an
\* inclusive comparison; it returns None exactly when no pair has a supported
\* operator and every value normalises.
C10_ReturnsAfterFirstSupportedPair ==
    fn = "_apply_query_param" =>
        LET sup == {i \in 1..Len(Pairs) : Pairs[i].operator \in SUPPORTED_QUERY_OPERATORS}
            j == CHOOSE i \in sup : \A k \in sup : i <= k
            upto == IF sup = {} THEN Len(Pairs) ELSE j
            allNorm == Normalises(SubSeq(Pairs, 1, upto))
        IN  /\ ReturnsQuery =>
                /\ sup # {}
                /\ KeepsCalls
                /\ Len(Added) = 1
                /\ Added[1].m = "filter"
                /\ IsFor(Added[1].arg, Pairs[j])
                /\ Added[1].arg.value = Normalised(Pairs[j])
            /\ (sup # {} /\ allNorm /\ Pairs[j].operator \notin {"$gte", "$lte"})
                   => ReturnsQuery
            /\ result = Return(None) <=> (sup = {} /\ allNorm)

\* a clause whose first operator is unsupported and whose second is not: the
\* accumulator returned carries the second pair's predicate
C10_Witness ==
    /\ fn = "_apply_query_param"
    /\ Len(Pairs) = 2
    /\ Pairs[1].operator \notin SUPPORTED_QUERY_OPERATORS
    /\ Pairs[2].operator \in SUPPORTED_QUERY_OPERATORS
    /\ ReturnsQuery
    /\ IsFor(Added[1].arg, Pairs[2])
====
